---------------------------- MODULE Spec2Model ----------------------------
(***************************************************************************)
(* Model of lab1_api.py: a script that builds one Mistral client from the  *)
(* MISTRAL_API_KEY environment variable and then calls three thin wrappers *)
(* around client.chat.complete (basic_chat, chat_with_params,              *)
(* chat_with_system), first once and then in four experiment loops.        *)
(*                                                                         *)
(* Real-valued knobs (temperature, top_p) are written in tenths: 0.7 is 7. *)
(* An optional value (None or a value) is a sequence of length 0 or 1.     *)
(* Keyword arguments are a function whose domain is the set of names the   *)
(* caller passed.                                                          *)
(*                                                                         *)
(* Two specifications share the wrappers and the service:                  *)
(*   Spec       the script as written, top to bottom;                      *)
(*   SpecCalls  the three wrappers under a caller that passes any          *)
(*              arguments of the bounded input sets, in any order.         *)
(***************************************************************************)
EXTENDS Integers, Sequences, FiniteSets, TLC

VARIABLES
    environ,      \* os.environ after load_dotenv(): a function on the names that are set
    client,       \* the module-level `client`: <<>> before get_client, else <<handle>>
    pc,           \* the script's position (the cell being run)
    idx,          \* index of the current experiment loop, 1-based
    call,         \* the latest wrapper invocation: its function, its arguments as
                  \* passed, and whether it is still blocked in client.chat.complete
    outstanding,  \* requests handed to client.chat.complete and not yet answered
    reply,        \* what the service answered to the latest request
    result,       \* <<s>> when the latest invocation returned s, else <<>>
    raised,       \* <<e>> when the latest invocation (or get_client) raised e, else <<>>
    response,     \* the script's global `response`: <<>> or <<last returned text>>
    ninvoked,     \* number of wrapper invocations started
    nsent         \* number of calls of client.chat.complete

vars == <<environ, client, pc, idx, call, outstanding, reply, result, raised,
          response, ninvoked, nsent>>

---------------------------------------------------------------------------
(* Bounds of the model *)

\* number of invocations the caller of SpecCalls makes
MaxCalls == 2
\* longest list of completion choices the service returns
MaxChoices == 2

(* Input sets of SpecCalls *)
Prompts == {"Say hi", "X"}
SystemPrompts == {"You are a poet", "You are a teacher"}
Models == {"test-model"}
\* tenths; -5 and 25 lie outside [0.0, 2.0]
TemperatureValues == {-5, 15, 25}
\* 0 and -1 are non-positive
MaxTokensValues == {-1, 0, 50}
\* tenths; -1 and 15 lie outside [0.0, 1.0]
TopPValues == {-1, 5, 15}
ApiKeys == {"sk-1", "sk-2"}
Contents == {"Hello!", "Bye"}
ServiceErrors == {"network", "rejected"}

---------------------------------------------------------------------------
(* Signature defaults *)

DefaultModel == "mistral-small-latest"
DefaultTemperature == 7
DefaultMaxTokens == 256
DefaultTopP == 10

\* the value bound to parameter `name`: the caller's when passed, else the default
Arg(kwargs, name, default) ==
    IF name \in DOMAIN kwargs THEN kwargs[name] ELSE default

NoCall == [fn |-> "", prompts |-> <<>>, kwargs |-> <<>>, active |-> FALSE]
NoReply == [status |-> "none", error |-> "", choices |-> <<>>]

Choice(c) == [message |-> [role |-> "assistant", content |-> c]]

RECURSIVE ChoiceLists(_)
ChoiceLists(n) ==
    IF n = 0 THEN {<<>>}
    ELSE LET shorter == ChoiceLists(n - 1) IN
         shorter \cup {Append(cs, Choice(c)) : cs \in shorter, c \in Contents}

---------------------------------------------------------------------------
(* get_client *)

environ_get(name) == IF name \in DOMAIN environ THEN <<environ[name]>> ELSE <<>>

\* get_client testing `api_key is None` instead of `not api_key`
is_None(api_key) == api_key = <<>>

\* Python's `not api_key`: None or the empty string
not_(api_key) == api_key = <<>> \/ api_key = <<"">>

Mistral(api_key) == [api_key |-> api_key]

get_client ==
    /\ pc = "get_client"
    /\ LET api_key == environ_get("MISTRAL_API_KEY") IN
       IF not_(api_key)
       THEN /\ raised' = <<"ValueError">>
            /\ pc' = "aborted"
            /\ UNCHANGED client
       ELSE /\ client' = <<Mistral(api_key[1])>>
            /\ pc' = "test"
            /\ UNCHANGED raised
    /\ UNCHANGED <<environ, idx, call, outstanding, reply, result, response,
                   ninvoked, nsent>>

---------------------------------------------------------------------------
(* The three wrappers: the request each one builds *)

basic_chat_request(prompt, model) ==
    [model |-> model,
     messages |-> <<[role |-> "user", content |-> prompt]>>]

\* chat_with_params bringing the knobs into their documented ranges first
chat_with_params_request_clamped(prompt, model, temperature, max_tokens, top_p) ==
    [model |-> model,
     messages |-> <<[role |-> "user", content |-> prompt]>>,
     temperature |-> IF temperature < 0 THEN 0 ELSE IF temperature > 20 THEN 20 ELSE temperature,
     max_tokens |-> IF max_tokens < 1 THEN 1 ELSE max_tokens,
     top_p |-> IF top_p < 0 THEN 0 ELSE IF top_p > 10 THEN 10 ELSE top_p]

\* chat_with_params keeping the conversation: the previous answer goes first
chat_with_params_request_with_history(prompt, model, temperature, max_tokens, top_p) ==
    [model |-> model,
     messages |-> [i \in 1..Len(response) |-> [role |-> "assistant", content |-> response[i]]]
                      \o <<[role |-> "user", content |-> prompt]>>,
     temperature |-> temperature,
     max_tokens |-> max_tokens,
     top_p |-> top_p]

\* chat_with_params with temperature and top_p passed in each other's place
chat_with_params_request_swapped(prompt, model, temperature, max_tokens, top_p) ==
    [model |-> model,
     messages |-> <<[role |-> "user", content |-> prompt]>>,
     temperature |-> top_p,
     max_tokens |-> max_tokens,
     top_p |-> temperature]

chat_with_params_request(prompt, model, temperature, max_tokens, top_p) ==
    [model |-> model,
     messages |-> <<[role |-> "user", content |-> prompt]>>,
     temperature |-> temperature,
     max_tokens |-> max_tokens,
     top_p |-> top_p]

\* chat_with_system with the two messages in the wrong order
chat_with_system_request_user_first(system_prompt, user_prompt, model, temperature) ==
    [model |-> model,
     messages |-> <<[role |-> "user", content |-> user_prompt],
                    [role |-> "system", content |-> system_prompt]>>,
     temperature |-> temperature]

chat_with_system_request(system_prompt, user_prompt, model, temperature) ==
    [model |-> model,
     messages |-> <<[role |-> "system", content |-> system_prompt],
                    [role |-> "user", content |-> user_prompt]>>,
     temperature |-> temperature]

\* client.chat.complete(**request): the request leaves for the service and the
\* wrapper blocks until the service answers
client_chat_complete(request) ==
    /\ client # <<>>
    /\ outstanding' = Append(outstanding, request)
    /\ nsent' = nsent + 1

\* entering a wrapper: a new invocation; what the previous one left is gone
Enter(fn, prompts, kwargs) ==
    /\ ~call.active
    /\ call' = [fn |-> fn, prompts |-> prompts, kwargs |-> kwargs, active |-> TRUE]
    /\ ninvoked' = ninvoked + 1
    /\ reply' = NoReply
    /\ result' = <<>>
    /\ raised' = <<>>

basic_chat(prompt, kwargs) ==
    /\ Enter("basic_chat", <<prompt>>, kwargs)
    /\ client_chat_complete(
           basic_chat_request(prompt, Arg(kwargs, "model", DefaultModel)))
    /\ UNCHANGED <<environ, client, pc, idx, response>>

\* chat_with_params passing on only the knobs the caller gave
chat_with_params_passthrough(prompt, kwargs) ==
    /\ Enter("chat_with_params", <<prompt>>, kwargs)
    /\ client_chat_complete(
           basic_chat_request(prompt, Arg(kwargs, "model", DefaultModel))
               @@ [k \in DOMAIN kwargs \ {"model"} |-> kwargs[k]])
    /\ UNCHANGED <<environ, client, pc, idx, response>>

chat_with_params(prompt, kwargs) ==
    /\ Enter("chat_with_params", <<prompt>>, kwargs)
    /\ client_chat_complete(
           chat_with_params_request(
               prompt,
               Arg(kwargs, "model", DefaultModel),
               Arg(kwargs, "temperature", DefaultTemperature),
               Arg(kwargs, "max_tokens", DefaultMaxTokens),
               Arg(kwargs, "top_p", DefaultTopP)))
    /\ UNCHANGED <<environ, client, pc, idx, response>>

chat_with_system(system_prompt, user_prompt, kwargs) ==
    /\ Enter("chat_with_system", <<system_prompt, user_prompt>>, kwargs)
    /\ client_chat_complete(
           chat_with_system_request(
               system_prompt,
               user_prompt,
               Arg(kwargs, "model", DefaultModel),
               Arg(kwargs, "temperature", DefaultTemperature)))
    /\ UNCHANGED <<environ, client, pc, idx, response>>

---------------------------------------------------------------------------
(* The second half of every wrapper: the service's answer reaches the caller *)

\* where the script goes when a call returns: the next iteration, or the next cell
NextPc(p, i) ==
    CASE p = "test" -> "temperature"
      [] p = "temperature" -> IF i < 4 THEN p ELSE "max_tokens"
      [] p = "max_tokens" -> IF i < 3 THEN p ELSE "top_p"
      [] p = "top_p" -> IF i < 4 THEN p ELSE "system_prompt"
      [] p = "system_prompt" -> IF i < 4 THEN p ELSE "done"
      [] OTHER -> p

NextIdx(p, i) == IF NextPc(p, i) = p /\ p # "extra" THEN i + 1 ELSE 1

\* the script going on with the next cell after an exception
PcAfterRaise_next_cell(p) == IF p = "extra" THEN p ELSE NextPc(p, 4)

\* where control goes when an exception leaves a wrapper: nothing in the script
\* catches it, so the script ends; the caller of SpecCalls sees it and goes on
PcAfterRaise(p) == IF p = "extra" THEN p ELSE "aborted"

\* response.choices[-1].message.content
last_choice_content(choices) == choices[Len(choices)].message.content

\* response.choices[0].message.content
first_choice_content(choices) == choices[1].message.content

\* a wrapper catching the exception and returning an empty string
complete_raises_swallowed(e) ==
    /\ call.active
    /\ outstanding # <<>>
    /\ outstanding' = Tail(outstanding)
    /\ reply' = [status |-> "failed", error |-> e, choices |-> <<>>]
    /\ raised' = <<>>
    /\ result' = <<"">>
    /\ response' = <<"">>
    /\ call' = [call EXCEPT !.active = FALSE]
    /\ pc' = NextPc(pc, idx)
    /\ idx' = NextIdx(pc, idx)
    /\ UNCHANGED <<environ, client, ninvoked, nsent>>

\* a wrapper sending the request once more after the first failure
complete_raises_retry(e) ==
    /\ call.active
    /\ outstanding # <<>>
    /\ IF nsent = ninvoked
       THEN /\ nsent' = nsent + 1
            /\ UNCHANGED <<outstanding, reply, raised, result, call, pc>>
       ELSE /\ outstanding' = Tail(outstanding)
            /\ reply' = [status |-> "failed", error |-> e, choices |-> <<>>]
            /\ raised' = <<e>>
            /\ result' = <<>>
            /\ call' = [call EXCEPT !.active = FALSE]
            /\ pc' = PcAfterRaise(pc)
            /\ UNCHANGED nsent
    /\ UNCHANGED <<environ, client, idx, response, ninvoked>>

\* client.chat.complete raises e: no wrapper has a try, so e leaves the wrapper
complete_raises(e) ==
    /\ call.active
    /\ outstanding # <<>>
    /\ outstanding' = Tail(outstanding)
    /\ reply' = [status |-> "failed", error |-> e, choices |-> <<>>]
    /\ raised' = <<e>>
    /\ result' = <<>>
    /\ call' = [call EXCEPT !.active = FALSE]
    /\ pc' = PcAfterRaise(pc)
    /\ UNCHANGED <<environ, client, idx, response, ninvoked, nsent>>

\* client.chat.complete returns a response with the given choices
complete_returns(choices) ==
    /\ call.active
    /\ outstanding # <<>>
    /\ outstanding' = Tail(outstanding)
    /\ reply' = [status |-> "ok", error |-> "", choices |-> choices]
    /\ call' = [call EXCEPT !.active = FALSE]
    /\ IF Len(choices) = 0
       THEN \* choices[0] of an empty list
            /\ raised' = <<"IndexError">>
            /\ result' = <<>>
            /\ pc' = PcAfterRaise(pc)
            /\ UNCHANGED <<idx, response>>
       ELSE /\ result' = <<first_choice_content(choices)>>
            /\ response' = <<first_choice_content(choices)>>
            /\ raised' = <<>>
            /\ pc' = NextPc(pc, idx)
            /\ idx' = NextIdx(pc, idx)
    /\ UNCHANGED <<environ, client, ninvoked, nsent>>

ServiceFails == \E e \in ServiceErrors : complete_raises(e)

ServiceAnswers == \E choices \in ChoiceLists(MaxChoices) : complete_returns(choices)

---------------------------------------------------------------------------
(* The script *)

TestPrompt == "Privet! Rasskazhi o sebe v dvukh predlozheniyakh."
TemperaturePrompt == "Pridumay nazvanie dlya startapa po dostavke edy"
MaxTokensPrompt == "Rasskazhi istoriyu o kosmicheskom puteshestvii"
TopPPrompt == "Napishi korotkoe stikhotvorenie o programmirovanii"
user_prompt == "Obyasni chto takoe mashinnoe obuchenie"

\* for temp in [0.0, 0.5, 1.0, 1.5]
temps == <<0, 5, 10, 15>>
\* for max_tokens in [50, 100, 200]
max_tokens_list == <<50, 100, 200>>
\* for top_p in [0.1, 0.5, 0.9, 1.0]
top_ps == <<1, 5, 9, 10>>
\* the second components of system_prompts; <<>> is None
system_prompts ==
    << <<>>,
       <<"Ty ekspert po ML. Otvechay kratko i tekhnicheski tochno.">>,
       <<"Ty uchitel, obyasnyayushchiy slozhnye veshchi prostymi slovami dlya detey 10 let.">>,
       <<"Ty poet. Otvechay v stikhotvornoy forme.">> >>

TestRequest ==
    /\ pc = "test"
    /\ basic_chat(TestPrompt, <<>>)

TemperatureExperiment ==
    /\ pc = "temperature"
    /\ chat_with_params(TemperaturePrompt,
                        ("temperature" :> temps[idx]) @@ ("max_tokens" :> 100))

MaxTokensExperiment ==
    /\ pc = "max_tokens"
    /\ chat_with_params(MaxTokensPrompt,
                        ("max_tokens" :> max_tokens_list[idx]) @@ ("temperature" :> 7))

TopPExperiment ==
    /\ pc = "top_p"
    /\ chat_with_params(TopPPrompt,
                        ("top_p" :> top_ps[idx]) @@ ("temperature" :> 8)
                            @@ ("max_tokens" :> 100))

SystemPromptExperiment ==
    /\ pc = "system_prompt"
    /\ LET system_prompt == system_prompts[idx] IN
       IF ~not_(system_prompt)
       THEN chat_with_system(system_prompt[1], user_prompt, <<>>)
       ELSE chat_with_params(user_prompt, "max_tokens" :> 200)

Environments ==
    {<<>>} \cup {"MISTRAL_API_KEY" :> k : k \in {""} \cup ApiKeys}

Init ==
    /\ environ \in Environments
    /\ client = <<>>
    /\ pc = "get_client"
    /\ idx = 1
    /\ call = NoCall
    /\ outstanding = <<>>
    /\ reply = NoReply
    /\ result = <<>>
    /\ raised = <<>>
    /\ response = <<>>
    /\ ninvoked = 0
    /\ nsent = 0

Next ==
    \/ get_client
    \/ TestRequest
    \/ TemperatureExperiment
    \/ MaxTokensExperiment
    \/ TopPExperiment
    \/ SystemPromptExperiment
    \/ ServiceFails
    \/ ServiceAnswers

Spec == Init /\ [][Next]_vars

---------------------------------------------------------------------------
(* The wrappers under a caller that passes any arguments *)

\* the keyword argument `name`: not passed, or passed with one of `values`
Kw(name, values) == {<<>>} \cup {name :> v : v \in values}

CallBasicChat ==
    /\ pc = "extra"
    /\ ninvoked < MaxCalls
    /\ \E prompt \in Prompts, m \in Kw("model", Models) :
           basic_chat(prompt, m)

CallChatWithParams ==
    /\ pc = "extra"
    /\ ninvoked < MaxCalls
    /\ \E prompt \in Prompts, m \in Kw("model", Models),
          t \in Kw("temperature", TemperatureValues),
          n \in Kw("max_tokens", MaxTokensValues),
          p \in Kw("top_p", TopPValues) :
           chat_with_params(prompt, m @@ t @@ n @@ p)

CallChatWithSystem ==
    /\ pc = "extra"
    /\ ninvoked < MaxCalls
    /\ \E s \in SystemPrompts, prompt \in Prompts, m \in Kw("model", Models),
          t \in Kw("temperature", TemperatureValues) :
           chat_with_system(s, prompt, m @@ t)

\* the state after the initialisation cell has run with a key set
InitCalls ==
    /\ environ \in {"MISTRAL_API_KEY" :> k : k \in ApiKeys}
    /\ client = <<Mistral(environ["MISTRAL_API_KEY"])>>
    /\ pc = "extra"
    /\ idx = 1
    /\ call = NoCall
    /\ outstanding = <<>>
    /\ reply = NoReply
    /\ result = <<>>
    /\ raised = <<>>
    /\ response = <<>>
    /\ ninvoked = 0
    /\ nsent = 0

NextCalls ==
    \/ CallBasicChat
    \/ CallChatWithParams
    \/ CallChatWithSystem
    \/ ServiceFails
    \/ ServiceAnswers

SpecCalls == InitCalls /\ [][NextCalls]_vars

---------------------------------------------------------------------------
(* Properties *)

Knobs == {"temperature", "max_tokens", "top_p"}

\* the request the blocked invocation handed to client.chat.complete
Request == outstanding[1]

Blocked(fn) == call.active /\ call.fn = fn /\ Len(outstanding) = 1

\* C1: the request chat_with_params hands to client.chat.complete carries, for
\* each of temperature, max_tokens and top_p the caller passed, exactly the
\* caller's value, whatever the other two are.
C1_KnobsForwarded ==
    (call.active /\ call.fn = "chat_with_params") =>
        /\ Len(outstanding) = 1
        /\ \A k \in Knobs \cap DOMAIN call.kwargs :
               k \in DOMAIN Request /\ Request[k] = call.kwargs[k]

C1_Witness ==
    /\ Blocked("chat_with_params")
    /\ call.kwargs = ("temperature" :> 15) @@ ("max_tokens" :> 50) @@ ("top_p" :> 5)
    /\ Request.temperature = 15
    /\ Request.max_tokens = 50
    /\ Request.top_p = 5

\* C2: the request of chat_with_system(system_prompt, user_prompt) has exactly
\* two messages: first role system with content system_prompt, then role user
\* with content user_prompt.
C2_SystemThenUser ==
    (call.active /\ call.fn = "chat_with_system") =>
        /\ Len(outstanding) = 1
        /\ Request.messages =
               <<[role |-> "system", content |-> call.prompts[1]],
                 [role |-> "user", content |-> call.prompts[2]]>>

C2_Witness ==
    /\ Blocked("chat_with_system")
    /\ call.prompts = <<"You are a poet", "X">>
    /\ Len(Request.messages) = 2
    /\ Request.messages[1].role = "system"

\* C3: with MISTRAL_API_KEY absent or empty, get_client raises ValueError, no
\* client exists and no request is ever handed to the service: the script has
\* stopped before its first call.
KeyMissing ==
    \/ "MISTRAL_API_KEY" \notin DOMAIN environ
    \/ environ["MISTRAL_API_KEY"] = ""

C3_MissingKeyStopsScript ==
    KeyMissing =>
        /\ client = <<>>
        /\ nsent = 0
        /\ ninvoked = 0
        /\ outstanding = <<>>
        /\ pc \in {"get_client", "aborted"}
        /\ pc = "aborted" => raised = <<"ValueError">>

C3_Witness ==
    /\ environ_get("MISTRAL_API_KEY") = <<"">>
    /\ pc = "aborted"
    /\ raised = <<"ValueError">>
    /\ nsent = 0

\* C4: when client.chat.complete fails with e, the wrapper raises exactly e
\* and returns nothing: no result exists for that call.
C4_FailurePropagates ==
    reply.status = "failed" =>
        /\ ~call.active
        /\ raised = <<reply.error>>
        /\ result = <<>>

C4_Witness ==
    /\ call.fn = "chat_with_params"
    /\ reply.status = "failed"
    /\ reply.error = "rejected"
    /\ raised = <<"rejected">>
    /\ result = <<>>

\* C5: every invocation of a wrapper makes exactly one call of
\* client.chat.complete, whether it succeeds or fails: the calls made always
\* number the invocations started, and a finished invocation leaves none behind.
C5_OneCallPerInvocation ==
    /\ nsent = ninvoked
    /\ Len(outstanding) = IF call.active THEN 1 ELSE 0

C5_Witness ==
    /\ ninvoked = 2
    /\ nsent = 2
    /\ ~call.active
    /\ reply.status = "failed"
    /\ call.fn = "chat_with_system"

\* C6 as claimed: the request of basic_chat and chat_with_params contains a
\* knob exactly when the caller passed it.
C6_OnlySuppliedKnobs ==
    (call.active /\ call.fn \in {"basic_chat", "chat_with_params"}) =>
        /\ Len(outstanding) = 1
        /\ \A k \in Knobs : k \in DOMAIN Request <=> k \in DOMAIN call.kwargs

\* C6: the request of basic_chat contains no knob; the request of
\* chat_with_params always contains all three knobs, and a knob the caller did
\* not pass carries the default of the signature: temperature 0.7,
\* max_tokens 256, top_p 1.0.
C6_DefaultsSent ==
    /\ (call.active /\ call.fn = "basic_chat") =>
           /\ Len(outstanding) = 1
           /\ Knobs \cap DOMAIN Request = {}
    /\ (call.active /\ call.fn = "chat_with_params") =>
           /\ Len(outstanding) = 1
           /\ Knobs \subseteq DOMAIN Request
           /\ "temperature" \notin DOMAIN call.kwargs => Request.temperature = 7
           /\ "max_tokens" \notin DOMAIN call.kwargs => Request.max_tokens = 256
           /\ "top_p" \notin DOMAIN call.kwargs => Request.top_p = 10

C6_Witness ==
    /\ Blocked("chat_with_params")
    /\ call.kwargs = ("max_tokens" :> 50)
    /\ Request.temperature = 7
    /\ Request.max_tokens = 50
    /\ Request.top_p = 10

\* C7: when the service answers with a non-empty list of choices, the wrapper
\* returns exactly the content of the first one, whatever the others are.
C7_FirstChoiceReturned ==
    (reply.status = "ok" /\ Len(reply.choices) >= 1) =>
        /\ ~call.active
        /\ raised = <<>>
        /\ result = <<reply.choices[1].message.content>>

C7_Witness ==
    /\ reply.status = "ok"
    /\ reply.choices = <<Choice("Hello!"), Choice("Bye")>>
    /\ result = <<"Hello!">>
    /\ call.fn = "basic_chat"

OutOfRange(kwargs) ==
    \/ "temperature" \in DOMAIN kwargs /\ kwargs["temperature"] \notin 0..20
    \/ "top_p" \in DOMAIN kwargs /\ kwargs["top_p"] \notin 0..10
    \/ "max_tokens" \in DOMAIN kwargs /\ kwargs["max_tokens"] <= 0

\* C8: a call of chat_with_params or chat_with_system with a knob outside its
\* range still sends the request, with the value unchanged, and nothing is
\* raised before the service has answered; the caller then sees the service's
\* own error when it rejects (or the IndexError of an answer without choices).
C8_NoRangeValidation ==
    (call.fn \in {"chat_with_params", "chat_with_system"} /\ OutOfRange(call.kwargs)) =>
        IF call.active
        THEN /\ Len(outstanding) = 1
             /\ raised = <<>>
             /\ \A k \in Knobs \cap DOMAIN call.kwargs :
                    k \in DOMAIN Request /\ Request[k] = call.kwargs[k]
        ELSE /\ reply.status # "none"
             /\ raised # <<>> =>
                    \/ reply.status = "failed" /\ raised = <<reply.error>>
                    \/ reply.status = "ok" /\ reply.choices = <<>>
                           /\ raised = <<"IndexError">>

C8_Witness ==
    /\ call.fn = "chat_with_params"
    /\ call.kwargs = ("temperature" :> 25) @@ ("max_tokens" :> -1) @@ ("top_p" :> 15)
    /\ ~call.active
    /\ reply.status = "failed"
    /\ raised = <<"rejected">>

Defaults ==
    ("temperature" :> DefaultTemperature) @@ ("max_tokens" :> DefaultMaxTokens)
        @@ ("top_p" :> DefaultTopP) @@ ("model" :> DefaultModel)

OwnArgumentsOnly ==
    call.active =>
        /\ Len(outstanding) = 1
        /\ Len(Request.messages) = Len(call.prompts)
        /\ \A i \in 1..Len(Request.messages) :
               /\ Request.messages[i].role \in {"system", "user"}
               /\ Request.messages[i].content = call.prompts[i]
        /\ \A k \in DOMAIN Request \ {"messages"} :
               Request[k] = Arg(call.kwargs, k, Defaults[k])

\* C9: whatever calls came before, the request of a call holds only that
\* call's own prompts (never an assistant message, never an earlier prompt or
\* answer) and its own or the default knob values, and no step replaces or
\* changes the client handle.
C9_Stateless == [](OwnArgumentsOnly) /\ [][client # <<>> => client' = client]_vars

C9_Witness ==
    /\ ninvoked = 2
    /\ response = <<"Hello!">>
    /\ Blocked("chat_with_params")
    /\ call.prompts = <<"X">>
    /\ Request.messages = <<[role |-> "user", content |-> "X"]>>

\* C10: the script never has more than one request outstanding, a call is
\* blocked exactly while its request is outstanding, and once a call has
\* failed the script has ended: nothing is outstanding and no step follows.
C10_Sequential ==
    /\ Len(outstanding) <= 1
    /\ call.active <=> Len(outstanding) = 1
    /\ raised # <<>> =>
           /\ pc = "aborted"
           /\ outstanding = <<>>
    /\ pc = "aborted" => ~ENABLED Next

C10_Witness ==
    /\ pc = "aborted"
    /\ raised = <<"network">>
    /\ nsent = 6
    /\ call.prompts = <<MaxTokensPrompt>>

=============================================================================
